---- MODULE Spec2Model ----
(***************************************************************************)
(* Model of arty_ddr3.py: the clock/reset generator _CRG (PLLE2_BASE, two  *)
(* AsyncResetSynchronizers, the IDELAYCTRL reset countdown) as the         *)
(* hardware it elaborates to, and the composition done by BaseSoC (the     *)
(* csr_map class attribute, the bus-master registration).                  *)
(***************************************************************************)
EXTENDS Integers, FiniteSets, TLC

VARIABLES
    \* ---- generated hardware (_CRG) ----
    pll_locked,     \* o_LOCKED of PLLE2_BASE
    rst,            \* level of the cpu_reset pin
    sys_rst1,       \* first FDPE of the cd_sys synchronizer
    sys_rst,        \* cd_sys.rst (second FDPE)
    clk200_rst1,    \* first FDPE of the cd_clk200 synchronizer
    clk200_rst,     \* cd_clk200.rst (second FDPE)
    reset_counter,  \* Signal(4, reset=15), clk200 domain
    ic_reset,       \* Signal(reset=1), clk200 domain, i_RST of IDELAYCTRL
    phase,          \* clk200 edges since the last coincident sys edge
    lock_ticks,     \* history: clk200 edges since lock was achieved (saturating)
    run_ticks,      \* history: clk200 edges since the clk200 registers last held
                    \*          their reset values (saturating)
    \* ---- composition (BaseSoC) ----
    pc,             \* position in the class body / BaseSoC.__init__
    inherited,      \* SoCSDRAM.csr_map
    csr_map,        \* BaseSoC.csr_map
    wb_masters,     \* registered wishbone masters
    cpu_or_bridge,  \* self.cpu_or_bridge
    submodules,     \* self.submodules
    domains,        \* frequency/phase of the four clock domains
    failed          \* registrations refused so far

hw_vars == <<pll_locked, rst, sys_rst1, sys_rst, clk200_rst1, clk200_rst,
             reset_counter, ic_reset, phase, lock_ticks, run_ticks>>
soc_vars == <<pc, inherited, csr_map, wb_masters, cpu_or_bridge, submodules,
              domains, failed>>
vars == <<hw_vars, soc_vars>>

(***************************************************************************)
(* Bounds of the model.                                                    *)
(***************************************************************************)
\* saturation point of the two history counters
MaxTicks == 20
\* inherited offsets are drawn from 0..MaxLowOffset and the last one below the floor
MaxLowOffset == 2
\* registrations attempted after construction
MaxAttempts == 2

(***************************************************************************)
(* PLLE2_BASE parameters.                                                  *)
(***************************************************************************)
CLKIN1_PERIOD == 10
CLKFBOUT_MULT == 16
DIVCLK_DIVIDE == 1
CLKOUT0_DIVIDE == 16
CLKOUT0_PHASE == 0
CLKOUT1_DIVIDE == 4
CLKOUT1_PHASE == 0
CLKOUT2_DIVIDE == 4
CLKOUT2_PHASE == 90
CLKOUT3_DIVIDE == 8
CLKOUT3_PHASE == 0

\* reference frequency in MHz, from the input period in ns
RefMHz == 1000 \div CLKIN1_PERIOD
VcoMHz == (RefMHz * CLKFBOUT_MULT) \div DIVCLK_DIVIDE

PllOut_FromReference(divide, ph) ==
    [freq |-> RefMHz \div divide, phase |-> ph, exact |-> RefMHz % divide = 0]
PllOut(divide, ph) ==
    [freq |-> VcoMHz \div divide, phase |-> ph, exact |-> VcoMHz % divide = 0]

ClockTable ==
    [sys       |-> PllOut(CLKOUT0_DIVIDE, CLKOUT0_PHASE),
     sys4x     |-> PllOut(CLKOUT1_DIVIDE, CLKOUT1_PHASE),
     sys4x_dqs |-> PllOut(CLKOUT2_DIVIDE, CLKOUT2_PHASE),
     clk200    |-> PllOut(CLKOUT3_DIVIDE, CLKOUT3_PHASE)]

\* clk200 edges per sys edge: both outputs divide the same VCO at phase 0
SysPerClk200 == CLKOUT0_DIVIDE \div CLKOUT3_DIVIDE

(***************************************************************************)
(* Reset synchronizers.                                                    *)
(***************************************************************************)
SysAsyncReset(locked, r) == ~locked \/ ~r

Clk200AsyncReset_SamePolarity(locked, r) == ~locked \/ ~r
Clk200AsyncReset(locked, r) == ~locked \/ r

\* an FDPE: the asynchronous preset wins over the stored value
AsyncPreset_Ignored(async, q) == q
AsyncPreset(async, q) == IF async THEN TRUE ELSE q

\* the cpu_reset button of the board pulls the pin low while pressed
ExternalResetRequest == (rst = FALSE)

(***************************************************************************)
(* The countdown registers of the clk200 domain.                           *)
(***************************************************************************)
reset_counter_bits == 4
reset_counter_reset == 15
ic_reset_reset == 1

NextResetCounter_Skip(c) == IF c > 1 THEN c - 2 ELSE 0
NextResetCounter_Wrapping(c) == (c - 1) % (2 ^ reset_counter_bits)
NextResetCounter(c) ==
    IF c # 0 THEN (c - 1) % (2 ^ reset_counter_bits) ELSE c

NextIcReset_Swapped(c, ic) == IF c # 0 THEN 0 ELSE ic
NextIcReset(c, ic) == IF c # 0 THEN ic ELSE 0

\* one clk200 edge: the domain reset, sampled at the edge, reloads both registers
Clk200Regs_IcResetLess(domrst, c, ic) ==
    IF domrst THEN <<reset_counter_reset, NextIcReset(c, ic)>>
    ELSE <<NextResetCounter(c), NextIcReset(c, ic)>>
Clk200Regs(domrst, c, ic) ==
    IF domrst THEN <<reset_counter_reset, ic_reset_reset>>
    ELSE <<NextResetCounter(c), NextIcReset(c, ic)>>

(***************************************************************************)
(* The address map.                                                        *)
(***************************************************************************)
EmptyMap == [n \in {} |-> 0]

ExplicitCsrMap_Duplicate ==
    [ddrphy |-> 17, dna |-> 18, xadc |-> 18, analyzer |-> 20]
ExplicitCsrMap ==
    [ddrphy |-> 17, dna |-> 18, xadc |-> 19, analyzer |-> 20]

ExplicitNames == DOMAIN ExplicitCsrMap

\* dict.update: an entry of other replaces the entry of the same name
Update(m, other) ==
    [n \in (DOMAIN m) \cup (DOMAIN other) |->
        IF n \in DOMAIN other THEN other[n] ELSE m[n]]

Range(m) == {m[n] : n \in DOMAIN m}
Injective(m) == \A a, b \in DOMAIN m : a # b => m[a] # m[b]

\* the lowest explicit offset: inherited offsets are reserved below it
CsrFloor == CHOOSE v \in Range(ExplicitCsrMap) :
                \A w \in Range(ExplicitCsrMap) : v <= w

InheritedNames == {"crg", "uart", "sdram", "dna"}
ReservedOffsets == (0 .. MaxLowOffset) \cup {CsrFloor - 1}
InheritedMaps ==
    {m \in UNION {[S -> ReservedOffsets] : S \in SUBSET InheritedNames} :
        Injective(m)}

(***************************************************************************)
(* Bus-master registration.                                                *)
(***************************************************************************)
cpu_type_Lm32 == "lm32"
cpu_type == "None"

\* SoCSDRAM.__init__: a processor, when there is one, is the first master
InitialMasters == IF cpu_type = "None" THEN {} ELSE {"cpu"}
InitialCpu == IF cpu_type = "None" THEN "none" ELSE "cpu"

\* add_cpu_or_bridge: a second processor or bridge is refused
SetCpuOrBridge(cur, c) ==
    IF cur = "none" THEN [ok |-> TRUE, value |-> c]
    ELSE [ok |-> FALSE, value |-> cur]

\* add_wb_master: a second master is refused and the set is left as it was
RegisterMaster(masters, m) ==
    IF masters = {} THEN [ok |-> TRUE, masters |-> {m}]
    ELSE [ok |-> FALSE, masters |-> masters]

OtherMasters == {"cpu", "second_bridge"}

(***************************************************************************)
(* Initial state: the interpreter is about to run the class body; the      *)
(* FPGA is configured, the PLL has not locked yet.                         *)
(***************************************************************************)
Init ==
    /\ pll_locked = FALSE
    /\ rst \in BOOLEAN
    /\ sys_rst1 = TRUE
    /\ sys_rst = TRUE
    /\ clk200_rst1 = TRUE
    /\ clk200_rst = TRUE
    /\ reset_counter = reset_counter_reset
    /\ ic_reset = ic_reset_reset
    /\ phase = 0
    /\ lock_ticks = 0
    /\ run_ticks = 0
    /\ pc = "class_body"
    /\ inherited = EmptyMap
    /\ csr_map = EmptyMap
    /\ wb_masters = {}
    /\ cpu_or_bridge = "none"
    /\ submodules = {}
    /\ domains = EmptyMap
    /\ failed = 0

(***************************************************************************)
(* Hardware actions.                                                       *)
(***************************************************************************)
\* a change of the inputs of the synchronizers: the presets act at once
InputChange(newLocked, newRst) ==
    /\ pll_locked' = newLocked
    /\ rst' = newRst
    /\ sys_rst1' = AsyncPreset(SysAsyncReset(newLocked, newRst), sys_rst1)
    /\ sys_rst' = AsyncPreset(SysAsyncReset(newLocked, newRst), sys_rst)
    /\ clk200_rst1' = AsyncPreset(Clk200AsyncReset(newLocked, newRst), clk200_rst1)
    /\ clk200_rst' = AsyncPreset(Clk200AsyncReset(newLocked, newRst), clk200_rst)
    /\ lock_ticks' = IF newLocked /\ pll_locked THEN lock_ticks ELSE 0
    /\ UNCHANGED <<reset_counter, ic_reset, phase, run_ticks>>
    /\ UNCHANGED soc_vars

PllLock == ~pll_locked /\ InputChange(TRUE, rst)

PllUnlock == pll_locked /\ InputChange(FALSE, rst)

CpuResetChange == InputChange(pll_locked, ~rst)

\* a rising edge of clk200; every SysPerClk200-th one is a rising edge of sys too
Clk200Edge ==
    LET a200 == Clk200AsyncReset(pll_locked, rst)
        asys == SysAsyncReset(pll_locked, rst)
        regs == Clk200Regs(clk200_rst, reset_counter, ic_reset)
    IN  /\ clk200_rst1' = AsyncPreset(a200, FALSE)
        /\ clk200_rst' = AsyncPreset(a200, clk200_rst1)
        /\ IF phase = 0
           THEN /\ sys_rst1' = AsyncPreset(asys, FALSE)
                /\ sys_rst' = AsyncPreset(asys, sys_rst1)
           ELSE UNCHANGED <<sys_rst1, sys_rst>>
        /\ reset_counter' = regs[1]
        /\ ic_reset' = regs[2]
        /\ phase' = (phase + 1) % SysPerClk200
        /\ lock_ticks' =
               IF ~pll_locked THEN 0
               ELSE IF lock_ticks < MaxTicks THEN lock_ticks + 1 ELSE MaxTicks
        /\ run_ticks' =
               IF clk200_rst THEN 0
               ELSE IF run_ticks < MaxTicks THEN run_ticks + 1 ELSE MaxTicks
        /\ UNCHANGED <<pll_locked, rst>>
        /\ UNCHANGED soc_vars

Next == PllLock \/ PllUnlock \/ CpuResetChange \/ Clk200Edge

\* The gateware reads none of the composition's variables: under Spec and
\* FairSpec they keep their initial values, as the hardware variables do
\* under SpecSoC.
Spec == Init /\ [][Next]_vars

\* the PLL outputs are free-running clocks
FairSpec == Init /\ [][Next]_vars /\ WF_vars(Clk200Edge)

(***************************************************************************)
(* Composition actions.                                                    *)
(***************************************************************************)
ClassBody ==
    /\ pc = "class_body"
    /\ \E m \in InheritedMaps :
          /\ inherited' = m
          /\ csr_map' = Update(ExplicitCsrMap, m)
    /\ pc' = "soc_init"
    /\ UNCHANGED <<wb_masters, cpu_or_bridge, submodules, domains, failed>>
    /\ UNCHANGED hw_vars

SoCSDRAMInit ==
    /\ pc = "soc_init"
    /\ wb_masters' = InitialMasters
    /\ cpu_or_bridge' = InitialCpu
    /\ pc' = "crg"
    /\ UNCHANGED <<inherited, csr_map, submodules, domains, failed>>
    /\ UNCHANGED hw_vars

ElaborateCRG ==
    /\ pc = "crg"
    /\ domains' = ClockTable
    /\ submodules' = submodules \cup {"crg"}
    /\ pc' = "cores"
    /\ UNCHANGED <<inherited, csr_map, wb_masters, cpu_or_bridge, failed>>
    /\ UNCHANGED hw_vars

AddCores ==
    /\ pc = "cores"
    /\ submodules' = submodules \cup {"dna", "xadc", "ddrphy"}
    /\ pc' = "bridge"
    /\ UNCHANGED <<inherited, csr_map, wb_masters, cpu_or_bridge, domains, failed>>
    /\ UNCHANGED hw_vars

AddCpuOrBridge ==
    /\ pc = "bridge"
    /\ LET r == SetCpuOrBridge(cpu_or_bridge, "uart_bridge")
       IN  /\ cpu_or_bridge' = r.value
           /\ failed' = IF r.ok THEN failed ELSE failed + 1
           /\ pc' = IF r.ok THEN "wb_master" ELSE "aborted"
    /\ UNCHANGED <<inherited, csr_map, wb_masters, submodules, domains>>
    /\ UNCHANGED hw_vars

AddWbMaster ==
    /\ pc = "wb_master"
    /\ LET r == RegisterMaster(wb_masters, cpu_or_bridge)
       IN  /\ wb_masters' = r.masters
           /\ failed' = IF r.ok THEN failed ELSE failed + 1
           /\ pc' = IF r.ok THEN "done" ELSE "aborted"
    /\ UNCHANGED <<inherited, csr_map, cpu_or_bridge, submodules, domains>>
    /\ UNCHANGED hw_vars

\* a further registration on the composed SoC
RegisterSecond ==
    /\ pc = "done"
    /\ failed < MaxAttempts
    /\ \E m \in OtherMasters :
          LET r == RegisterMaster(wb_masters, m)
          IN  /\ wb_masters' = r.masters
              /\ failed' = IF r.ok THEN failed ELSE failed + 1
    /\ UNCHANGED <<pc, inherited, csr_map, cpu_or_bridge, submodules, domains>>
    /\ UNCHANGED hw_vars

NextSoC ==
    \/ ClassBody
    \/ SoCSDRAMInit
    \/ ElaborateCRG
    \/ AddCores
    \/ AddCpuOrBridge
    \/ AddWbMaster
    \/ RegisterSecond

SpecSoC == Init /\ [][NextSoC]_vars

(***************************************************************************)
(* Properties of the clock/reset generator (checked under Spec).           *)
(***************************************************************************)

\* C1: while pll_locked is false the reset of cd_sys and of cd_clk200 is
\* asserted, whatever the level of cpu_reset.
C1_ResetWhileUnlocked == ~pll_locked => (sys_rst /\ clk200_rst)

\* lock was lost after the clk200 domain had run its countdown
C1_Witness == ~pll_locked /\ ic_reset = 0 /\ sys_rst /\ clk200_rst

\* C2 (as stated): ic_reset is true for exactly 15 clk200 ticks of the
\* countdown and false from then on.
C2_FifteenTicks == ic_reset = (IF run_ticks < 15 THEN 1 ELSE 0)

\* C2 (amended): counted from the release of the clk200 domain reset,
\* reset_counter goes 15, 14, ..., 0 in 15 ticks, ic_reset is still 1 after
\* those 15 ticks and is cleared by the 16th; it is 0 from then on for as
\* long as no tick finds the domain reset asserted.
C2_SixteenTicks ==
    /\ ic_reset = (IF run_ticks < 16 THEN 1 ELSE 0)
    /\ reset_counter = (IF run_ticks < 15 THEN 15 - run_ticks ELSE 0)

C2_Witness == pll_locked /\ run_ticks = 16 /\ ic_reset = 0 /\ reset_counter = 0

\* C3 (as stated): once reset_counter is 0 and ic_reset is 0, no step
\* reloads the counter or re-asserts ic_reset.
C3_NeverRearms ==
    [][(reset_counter = 0 /\ ic_reset = 0)
          => (reset_counter' = 0 /\ ic_reset' = 0)]_vars

\* C3 (amended): once reset_counter is 0 and ic_reset is 0 they stay so
\* over every step except a clk200 tick that finds the clk200 domain reset
\* asserted, which reloads the counter to 15 and re-asserts ic_reset.
C3_RearmsOnlyOnDomainReset ==
    [][(reset_counter = 0 /\ ic_reset = 0)
          => IF clk200_rst /\ phase' # phase
             THEN reset_counter' = 15 /\ ic_reset' = 1
             ELSE reset_counter' = 0 /\ ic_reset' = 0]_vars

C3_Witness ==
    reset_counter = 0 /\ ic_reset = 0 /\ ~clk200_rst /\ run_ticks > 17

\* C4: ic_reset goes from 1 to 0 only when at least 15 clk200 ticks have
\* elapsed since lock was achieved.
C4_MinimumSettling ==
    [][(ic_reset = 1 /\ ic_reset' = 0) => lock_ticks' >= 15]_vars

C4_Witness == pll_locked /\ ic_reset = 0 /\ lock_ticks = 18 /\ run_ticks = 16

\* C5: the reset request of cd_sys is (NOT lock) OR (external reset request
\* asserted), that of cd_clk200 is (NOT lock) OR (external reset request
\* de-asserted); each request holds its domain in reset, and while lock is
\* true exactly one of the two requests is asserted.
C5_ResetPolarity ==
    /\ SysAsyncReset(pll_locked, rst) = (~pll_locked \/ ExternalResetRequest)
    /\ Clk200AsyncReset(pll_locked, rst) = (~pll_locked \/ ~ExternalResetRequest)
    /\ SysAsyncReset(pll_locked, rst) => sys_rst
    /\ Clk200AsyncReset(pll_locked, rst) => clk200_rst
    /\ pll_locked =>
          (SysAsyncReset(pll_locked, rst) # Clk200AsyncReset(pll_locked, rst))

\* locked, the button released: cd_sys runs and cd_clk200 is held in reset
C5_Witness == pll_locked /\ rst /\ ~sys_rst /\ clk200_rst

\* C9: if lock and the cpu_reset level that releases cd_sys are held, the
\* countdown runs out and ic_reset is de-asserted with cd_sys out of reset.
C9_CalibrationReleased ==
    []([](pll_locked /\ rst) => <>(~sys_rst /\ ic_reset = 0))

\* C10: reset_counter stays in 0..15, ic_reset = 0 implies reset_counter = 0,
\* and a clk200 tick without domain reset decrements a nonzero counter by
\* exactly 1 and leaves a zero counter at 0.
C10_CountdownInvariant ==
    /\ [](reset_counter \in 0 .. 15 /\ (ic_reset = 0 => reset_counter = 0))
    /\ [][(phase' # phase /\ ~clk200_rst)
             => reset_counter' =
                   (IF reset_counter > 0 THEN reset_counter - 1 ELSE 0)]_vars
    /\ [][reset_counter' > reset_counter => clk200_rst]_vars

C10_Witness == run_ticks = 8 /\ reset_counter = 7 /\ ic_reset = 1

(***************************************************************************)
(* Properties of the composition (checked under SpecSoC).                  *)
(***************************************************************************)

C8_ClockTable ==
    pc \notin {"class_body", "soc_init", "crg"} =>
        /\ RefMHz = 100
        /\ VcoMHz = 1600
        /\ domains = [sys       |-> [freq |-> 100, phase |-> 0,  exact |-> TRUE],
                      sys4x     |-> [freq |-> 400, phase |-> 0,  exact |-> TRUE],
                      sys4x_dqs |-> [freq |-> 400, phase |-> 90, exact |-> TRUE],
                      clk200    |-> [freq |-> 200, phase |-> 0,  exact |-> TRUE]]

C8_Witness == pc = "done" /\ domains.clk200.freq = 200 /\ "crg" \in submodules

====
